---- MODULE Spec2Model ----
(***************************************************************************)
(* Model of src/pages/api/public/generations.ts: the public ingestion      *)
(* endpoint for "generation" observations.  One handler invocation is a    *)
(* sequence of steps separated by the awaits of the source (cors           *)
(* middleware, credential verification, access-scope check, store call).   *)
(*                                                                         *)
(* JavaScript values are encoded as follows.  String-valued fields hold    *)
(* a string; the two nullish values are the strings Undefined and Null,    *)
(* the empty string is "".  Number-valued fields hold a natural number;    *)
(* the nullish values are the negative numbers NumUndefined and NumNull.   *)
(* A Date is the string NewDate(s); the object {completion: c} is the      *)
(* string WrapCompletion(c).                                               *)
(***************************************************************************)
EXTENDS Integers, Sequences, FiniteSets, TLC

VARIABLES
    traces,        \* stored Trace records
    observations,  \* stored Observation records
    nextId,        \* source of fresh record ids (cuid() of the store)
    creator,       \* history: {[id, projectId]} of observations the handler created
    reqs,          \* per handler invocation: the request and the position in handler()
    served,        \* number of requests received so far
    usageIn,       \* input of the usage derivation (UsageSpec)
    usageOut       \* result of the usage derivation (UsageSpec)

vars == <<traces, observations, nextId, creator, reqs, served, usageIn, usageOut>>
storeVars == <<traces, observations, nextId, creator>>
usageVars == <<usageIn, usageOut>>

----------------------------------------------------------------------------
(* Bounds *)

MaxRequests == 2
MaxTokens == 2

----------------------------------------------------------------------------
(* JavaScript values *)

Undefined == "<undefined>"
Null == "<null>"
BadType == "<not a string>"

NumUndefined == 0 - 1
NumNull == 0 - 2

Nullish(v) == v \in {Undefined, Null}
Truthy(v) == v \notin {Undefined, Null, ""}
NullishNum(n) == n < 0
TruthyNum(n) == n > 0
CoalesceNum(n, d) == IF NullishNum(n) THEN d ELSE n

\* v ?? undefined
OrUndefined(v) == IF Nullish(v) THEN Undefined ELSE v

\* new Date(s)
NewDate(s) == "Date(" \o s \o ")"

\* { completion: c }
WrapCompletion(c) == "{completion:" \o c \o "}"

ObservationLevel == {"DEBUG", "DEFAULT", "WARNING", "ERROR"}
Datetimes == {"2023-05-01T10:00:00Z", "2023-05-01T10:00:05Z"}

----------------------------------------------------------------------------
(* Usage derivation *)

NoUsage ==
    [defined |-> FALSE, promptTokens |-> NumUndefined,
     completionTokens |-> NumUndefined, totalTokens |-> NumUndefined]

EmptyUsage == [NoUsage EXCEPT !.defined = TRUE]

\* calculatedUsage of the create path
calculatedUsage(usage) ==
    IF usage.defined
    THEN [usage EXCEPT !.totalTokens =
            IF /\ ~TruthyNum(usage.totalTokens)
               /\ (TruthyNum(usage.promptTokens) \/ TruthyNum(usage.completionTokens))
            THEN CoalesceNum(usage.promptTokens, 0) + CoalesceNum(usage.completionTokens, 0)
            ELSE usage.totalTokens]
    ELSE NoUsage

\* calculatedUsage of the patch path
calculatedUsagePatch(usage) ==
    IF usage.defined
    THEN [usage EXCEPT !.totalTokens =
            IF /\ ~TruthyNum(usage.totalTokens)
               /\ (TruthyNum(usage.promptTokens) \/ TruthyNum(usage.completionTokens))
            THEN CoalesceNum(usage.promptTokens, 0) + CoalesceNum(usage.completionTokens, 0)
            ELSE usage.totalTokens]
    ELSE NoUsage

----------------------------------------------------------------------------
(* Request payloads and their schemas *)

ElidedFields == {"name", "model", "modelParameters", "metadata", "level", "statusMessage"}

BaseBody ==
    [generationId |-> Undefined, traceId |-> Undefined,
     parentObservationId |-> Undefined, name |-> Undefined,
     startTime |-> Undefined, endTime |-> Undefined, model |-> Undefined,
     modelParameters |-> Undefined, prompt |-> Undefined,
     completion |-> Undefined, usage |-> EmptyUsage, metadata |-> Undefined,
     level |-> Undefined, statusMessage |-> Undefined]

StringNullish(v) == v # BadType
DatetimeNullish(v) == Nullish(v) \/ v \in Datetimes
LevelNullish(v) == Nullish(v) \/ v \in ObservationLevel

\* GenerationsCreateSchema.parse(body) does not throw
GenerationsCreateSchema(body) ==
    /\ StringNullish(body.traceId)
    /\ StringNullish(body.name)
    /\ DatetimeNullish(body.startTime)
    /\ DatetimeNullish(body.endTime)
    /\ StringNullish(body.model)
    /\ StringNullish(body.modelParameters)
    /\ StringNullish(body.completion)
    /\ body.usage.defined
    /\ StringNullish(body.parentObservationId)
    /\ LevelNullish(body.level)
    /\ StringNullish(body.statusMessage)

\* the value GenerationsCreateSchema.parse(body) returns: unknown keys are stripped
CreateParsed(body) == [body EXCEPT !.generationId = Undefined]

\* GenerationPatchSchema.parse(body) does not throw
GenerationPatchSchema(body) ==
    /\ ~Nullish(body.generationId)
    /\ StringNullish(body.generationId)
    /\ StringNullish(body.name)
    /\ DatetimeNullish(body.endTime)
    /\ StringNullish(body.model)
    /\ StringNullish(body.modelParameters)
    /\ StringNullish(body.completion)
    /\ body.usage.defined
    /\ LevelNullish(body.level)
    /\ StringNullish(body.statusMessage)

\* the value GenerationPatchSchema.parse(body) returns: unknown keys are stripped
PatchParsed(body) ==
    [body EXCEPT !.traceId = Undefined, !.startTime = Undefined,
                 !.parentObservationId = Undefined]

----------------------------------------------------------------------------
(* Credentials and access scope *)

Projects == {"p1", "p2"}

\* the project an API key is bound to
KeyProject(key) == IF key = "k1" THEN "p1" ELSE "p2"

verifyAuthHeaderAndReturnScope(authorization) ==
    IF authorization \in {"k1", "k2"}
    THEN [validKey |-> TRUE, projectId |-> KeyProject(authorization), error |-> Undefined]
    ELSE [validKey |-> FALSE, projectId |-> Undefined,
          error |-> IF authorization = Undefined THEN "No authorization header"
                    ELSE "Invalid credentials"]

\* the project that owns a referenced resource, Undefined when it does not resolve
TraceProject(trs, id) ==
    IF \E t \in trs : t.id = id
    THEN (CHOOSE t \in trs : t.id = id).projectId
    ELSE Undefined

ObservationProject(trs, obs, id) ==
    IF \E o \in obs : o.id = id
    THEN TraceProject(trs, (CHOOSE o \in obs : o.id = id).traceId)
    ELSE Undefined

RefProject(trs, obs, ref) ==
    IF ref.type = "trace" THEN TraceProject(trs, ref.id)
    ELSE ObservationProject(trs, obs, ref.id)

checkApiAccessScope(projectId, refs, trs, obs) ==
    \A i \in 1..Len(refs) : RefProject(trs, obs, refs[i]) = projectId

\* mutant of CreateRefs: the parent observation is not handed to the check
CreateRefsTraceOnly(traceId, parentObservationId) ==
    IF Truthy(traceId) THEN <<[type |-> "trace", id |-> traceId]>> ELSE <<>>

\* the refs the create path hands to checkApiAccessScope
CreateRefs(traceId, parentObservationId) ==
    (IF Truthy(traceId) THEN <<[type |-> "trace", id |-> traceId]>> ELSE <<>>)
    \o (IF Truthy(parentObservationId)
        THEN <<[type |-> "observation", id |-> parentObservationId]>> ELSE <<>>)

\* the refs the patch path hands to checkApiAccessScope
PatchRefs(generationId) == <<[type |-> "observation", id |-> generationId]>>

----------------------------------------------------------------------------
(* The store: prisma.observation.create / prisma.observation.update *)

NewId(prefix, n) == prefix \o ToString(n)

\* a column left undefined in a create takes its default, null
DbValue(v) == IF v = Undefined THEN Null ELSE v

\* mutant of TraceRelation: the nested create does not pass the name on
TraceRelationUnnamed(traceId, name, projectId) ==
    IF Truthy(traceId)
    THEN [create |-> FALSE, connect |-> traceId, name |-> Undefined, project |-> Undefined]
    ELSE [create |-> TRUE, connect |-> Undefined, name |-> Undefined, project |-> projectId]

\* the trace relation of the created observation: connect or nested create
TraceRelation(traceId, name, projectId) ==
    IF Truthy(traceId)
    THEN [create |-> FALSE, connect |-> traceId, name |-> Undefined, project |-> Undefined]
    ELSE [create |-> TRUE, connect |-> Undefined, name |-> name, project |-> projectId]

\* the data object of prisma.observation.create
CreateData(p, projectId) ==
    [trace |-> TraceRelation(p.traceId, p.name, projectId),
     type |-> "GENERATION",
     name |-> p.name,
     startTime |-> IF Truthy(p.startTime) THEN NewDate(p.startTime) ELSE Undefined,
     endTime |-> IF Truthy(p.endTime) THEN NewDate(p.endTime) ELSE Undefined,
     metadata |-> OrUndefined(p.metadata),
     model |-> OrUndefined(p.model),
     modelParameters |-> OrUndefined(p.modelParameters),
     input |-> OrUndefined(p.prompt),
     output |-> IF Truthy(p.completion) THEN WrapCompletion(p.completion) ELSE Undefined,
     usage |-> calculatedUsage(p.usage),
     level |-> OrUndefined(p.level),
     statusMessage |-> OrUndefined(p.statusMessage),
     parent |-> IF Truthy(p.parentObservationId) THEN p.parentObservationId ELSE Undefined]

\* every record the create connects to exists
ConnectsResolve(data, trs, obs) ==
    /\ data.trace.create \/ \E t \in trs : t.id = data.trace.connect
    /\ data.parent = Undefined \/ \E o \in obs : o.id = data.parent

\* the trace a nested create inserts
CreatedTrace(id, data) ==
    [id |-> id, name |-> DbValue(data.trace.name), projectId |-> data.trace.project]

\* the observation row the create inserts
CreatedObservation(id, traceId, data) ==
    [id |-> id, traceId |-> traceId, parentObservationId |-> DbValue(data.parent),
     type |-> data.type, name |-> DbValue(data.name),
     startTime |-> DbValue(data.startTime), endTime |-> DbValue(data.endTime),
     metadata |-> DbValue(data.metadata), model |-> DbValue(data.model),
     modelParameters |-> DbValue(data.modelParameters),
     input |-> DbValue(data.input), output |-> DbValue(data.output),
     usage |-> data.usage, level |-> DbValue(data.level),
     statusMessage |-> DbValue(data.statusMessage)]

\* a field of the patch is forwarded only if neither null nor undefined
Elide(v) == IF v # Null /\ v # Undefined THEN v ELSE Undefined

\* the data object of prisma.observation.update
PatchData(p) ==
    [endTime |-> IF Truthy(p.endTime) THEN NewDate(p.endTime) ELSE Undefined,
     input |-> OrUndefined(p.prompt),
     output |-> IF Truthy(p.completion) THEN WrapCompletion(p.completion) ELSE Undefined,
     usage |-> calculatedUsagePatch(p.usage),
     name |-> Elide(p.name),
     model |-> Elide(p.model),
     modelParameters |-> Elide(p.modelParameters),
     metadata |-> Elide(p.metadata),
     level |-> Elide(p.level),
     statusMessage |-> Elide(p.statusMessage)]

\* an update leaves a column alone when the data holds undefined for it
Updated(old, new) == IF new = Undefined THEN old ELSE new

UpdatedObservation(o, data) ==
    [o EXCEPT !.endTime = Updated(@, data.endTime),
              !.input = Updated(@, data.input),
              !.output = Updated(@, data.output),
              !.usage = IF data.usage.defined THEN data.usage ELSE @,
              !.name = Updated(@, data.name),
              !.model = Updated(@, data.model),
              !.modelParameters = Updated(@, data.modelParameters),
              !.metadata = Updated(@, data.metadata),
              !.level = Updated(@, data.level),
              !.statusMessage = Updated(@, data.statusMessage)]

----------------------------------------------------------------------------
(* Responses *)

NoResponse ==
    [status |-> 0, keys |-> {}, message |-> Undefined, error |-> Undefined,
     observation |-> Undefined]

MethodNotAllowedResponse ==
    [NoResponse EXCEPT !.status = 405, !.keys = {"message"},
                       !.message = "Method not allowed"]

UnauthorizedResponse(error) ==
    [NoResponse EXCEPT !.status = 401, !.keys = {"success", "message"},
                       !.message = error]

AccessDeniedResponse ==
    [NoResponse EXCEPT !.status = 403, !.keys = {"success", "message"},
                       !.message = "Access denied"]

InvalidRequestResponse(errorMessage) ==
    [NoResponse EXCEPT !.status = 400, !.keys = {"success", "message", "error"},
                       !.message = "Invalid request data", !.error = errorMessage]

CreatedResponse(id) ==
    [NoResponse EXCEPT !.status = 201, !.keys = {"observation"}, !.observation = id]

----------------------------------------------------------------------------
(* handler(req, res) *)

Handlers == {"h1", "h2"}

IdleRequest ==
    [pc |-> "idle", method |-> Undefined, authorization |-> Undefined,
     body |-> BaseBody, scope |-> Undefined, resp |-> NoResponse, did |-> {},
     before |-> [traces |-> {}, observations |-> {}]]

Respond(h, response, did) ==
    reqs' = [reqs EXCEPT ![h].pc = "done", ![h].resp = response, ![h].did = did]

\* a request arrives and handler() is entered
Receive(h, method, authorization, body) ==
    /\ reqs[h].pc \in {"idle", "done"}
    /\ served < MaxRequests
    /\ served' = served + 1
    /\ reqs' = [reqs EXCEPT ![h] =
                  [IdleRequest EXCEPT !.pc = "cors", !.method = method,
                                      !.authorization = authorization, !.body = body,
                                      !.before = [traces |-> traces,
                                                  observations |-> observations]]]
    /\ UNCHANGED <<storeVars, usageVars>>

\* mutant of MethodNotAllowed: GET passes the method gate
MethodNotAllowedGetPasses(method) == method \notin {"POST", "GET"}

\* req.method !== "POST"
MethodNotAllowed(method) == method # "POST"

\* await runMiddleware(req, res, cors); then the method gate
MethodCheck(h) ==
    /\ reqs[h].pc = "cors"
    /\ IF MethodNotAllowed(reqs[h].method)
       THEN Respond(h, MethodNotAllowedResponse, reqs[h].did)
       ELSE reqs' = [reqs EXCEPT ![h].pc = "auth"]
    /\ UNCHANGED <<storeVars, served, usageVars>>

\* CHECK AUTH
CheckAuth(h) ==
    /\ reqs[h].pc = "auth"
    /\ LET authCheck == verifyAuthHeaderAndReturnScope(reqs[h].authorization)
           did == reqs[h].did \cup {"auth"}
       IN IF ~authCheck.validKey
          THEN Respond(h, UnauthorizedResponse(authCheck.error), did)
          ELSE reqs' = [reqs EXCEPT ![h].pc = "scope", ![h].did = did,
                                    ![h].scope = authCheck.projectId]
    /\ UNCHANGED <<storeVars, served, usageVars>>

\* schema parse, then CHECK ACCESS SCOPE, of either branch
CheckAccessScope(h) ==
    /\ reqs[h].pc = "scope"
    /\ LET r == reqs[h]
           valid == IF r.method = "POST" THEN GenerationsCreateSchema(r.body)
                    ELSE GenerationPatchSchema(r.body)
           refs == IF r.method = "POST"
                   THEN CreateRefs(CreateParsed(r.body).traceId,
                                   CreateParsed(r.body).parentObservationId)
                   ELSE PatchRefs(PatchParsed(r.body).generationId)
       IN IF r.method \notin {"POST", "PATCH"}
          THEN Respond(h, NoResponse, r.did)
          ELSE IF ~valid
          THEN Respond(h, InvalidRequestResponse("SchemaViolation"),
                       r.did \cup {"validate"})
          ELSE IF ~checkApiAccessScope(r.scope, refs, traces, observations)
          THEN Respond(h, AccessDeniedResponse, r.did \cup {"validate", "scope"})
          ELSE reqs' = [reqs EXCEPT ![h].pc = "persist",
                                    ![h].did = r.did \cup {"validate", "scope"}]
    /\ UNCHANGED <<storeVars, served, usageVars>>

\* prisma.observation.create of the POST branch
PersistCreate(h, storeOk) ==
    LET r == reqs[h]
        data == CreateData(CreateParsed(r.body), r.scope)
        tid == IF data.trace.create THEN NewId("t", nextId) ELSE data.trace.connect
        oid == NewId("o", nextId)
    IN IF storeOk /\ ConnectsResolve(data, traces, observations)
       THEN /\ traces' = IF data.trace.create
                         THEN traces \cup {CreatedTrace(tid, data)} ELSE traces
            /\ observations' = observations \cup {CreatedObservation(oid, tid, data)}
            /\ nextId' = nextId + 1
            /\ creator' = creator \cup {[id |-> oid, projectId |-> r.scope]}
            /\ Respond(h, CreatedResponse(oid), r.did \cup {"create"})
       ELSE /\ Respond(h, InvalidRequestResponse("StoreFailure"), r.did \cup {"create"})
            /\ UNCHANGED storeVars

\* prisma.observation.update of the PATCH branch
PersistUpdate(h, storeOk) ==
    LET r == reqs[h]
        p == PatchParsed(r.body)
        data == PatchData(p)
    IN IF storeOk /\ \E o \in observations : o.id = p.generationId
       THEN LET old == CHOOSE o \in observations : o.id = p.generationId
            IN /\ observations' = (observations \ {old}) \cup {UpdatedObservation(old, data)}
               /\ UNCHANGED <<traces, nextId, creator>>
               /\ Respond(h, CreatedResponse(p.generationId), r.did \cup {"update"})
       ELSE /\ Respond(h, InvalidRequestResponse("StoreFailure"), r.did \cup {"update"})
            /\ UNCHANGED storeVars

\* the store call of either branch; storeOk: the store accepts the operation
Persist(h, storeOk) ==
    /\ reqs[h].pc = "persist"
    /\ IF reqs[h].method = "POST" THEN PersistCreate(h, storeOk)
       ELSE PersistUpdate(h, storeOk)
    /\ UNCHANGED <<served, usageVars>>

----------------------------------------------------------------------------
(* Requests the clients send *)

Methods == {"GET", "POST", "PATCH"}
AuthHeaders == {"k1", "k2", "bad", Undefined}

\* "t3" and "o3" do not resolve until a create has inserted them
TraceRefs == {Undefined, Null, "", "t1", "t2", "t3"}
ParentRefs == {Undefined, "o1", "o2", "o3"}

SomeUsage ==
    [defined |-> TRUE, promptTokens |-> 1, completionTokens |-> NumNull,
     totalTokens |-> NumUndefined]

CreateBodies ==
    {[BaseBody EXCEPT !.traceId = t, !.parentObservationId = p, !.name = "foo"] :
        t \in TraceRefs, p \in ParentRefs}
    \cup {[BaseBody EXCEPT !.traceId = t, !.name = n] :
            t \in {Undefined, "t1"}, n \in {Undefined, Null}}
    \cup {[BaseBody EXCEPT !.usage = NoUsage],
          [BaseBody EXCEPT !.level = "FATAL"],
          [BaseBody EXCEPT !.traceId = "t1", !.prompt = "", !.completion = "",
                           !.startTime = "2023-05-01T10:00:00Z",
                           !.endTime = "2023-05-01T10:00:05Z", !.usage = SomeUsage,
                           !.model = "gpt", !.level = "WARNING"]}

PatchBodies ==
    {[BaseBody EXCEPT !.generationId = g, !.name = n] :
        g \in {"o1", "o2", "o3"}, n \in {Undefined, Null, "foo"}}
    \cup {[BaseBody EXCEPT !.generationId = g, !.completion = c] :
            g \in {"o1", "o2", "o3"}, c \in {"", "done"}}
    \cup {[BaseBody EXCEPT !.generationId = g, !.prompt = "", !.model = "gpt",
                           !.endTime = "2023-05-01T10:00:05Z", !.usage = SomeUsage,
                           !.level = Null, !.statusMessage = "ok"] : g \in {"o1", "o2"}}
    \cup {[BaseBody EXCEPT !.name = "foo"],
          [BaseBody EXCEPT !.generationId = "o1", !.usage = NoUsage]}

BodiesFor(method) ==
    IF method = "POST" THEN CreateBodies
    ELSE IF method = "PATCH" THEN PatchBodies
    ELSE CreateBodies \cup PatchBodies

\* two overlapping invocations: creates and rejected requests of both projects
ConcAuthHeaders == {"k1", "k2"}
ConcMethods == {"GET", "POST"}
ConcBodies ==
    {[BaseBody EXCEPT !.traceId = t, !.parentObservationId = p] :
        t \in {Undefined, "t1", "t2", "t3"}, p \in {Undefined, "o1", "o3"}}

UsageValues == {NumUndefined, NumNull} \cup (0..MaxTokens)
UsageInputs ==
    {NoUsage} \cup [defined : {TRUE}, promptTokens : UsageValues,
                    completionTokens : UsageValues, totalTokens : UsageValues]

----------------------------------------------------------------------------
(* Initial state *)

StoredObservation(id, traceId, name) ==
    [id |-> id, traceId |-> traceId, parentObservationId |-> Null,
     type |-> "GENERATION", name |-> name, startTime |-> Null, endTime |-> Null,
     metadata |-> Null, model |-> Null, modelParameters |-> Null, input |-> Null,
     output |-> WrapCompletion("old"), usage |-> EmptyUsage, level |-> "DEFAULT",
     statusMessage |-> Null]

InitStore ==
    /\ traces = {[id |-> "t1", name |-> "a", projectId |-> "p1"],
                 [id |-> "t2", name |-> "b", projectId |-> "p2"]}
    /\ observations = {StoredObservation("o1", "t1", "old"),
                       StoredObservation("o2", "t2", "old")}
    /\ nextId = 3
    /\ creator = {}

Init ==
    /\ InitStore
    /\ reqs = [h \in Handlers |-> IdleRequest]
    /\ served = 0
    /\ usageIn = NoUsage
    /\ usageOut = [path |-> "none", usage |-> NoUsage]

\* one request at a time
Next ==
    \E h \in {"h1"} :
        \/ \E m \in Methods, a \in AuthHeaders :
             \E b \in BodiesFor(m) : Receive(h, m, a, b)
        \/ MethodCheck(h)
        \/ CheckAuth(h)
        \/ CheckAccessScope(h)
        \/ \E storeOk \in BOOLEAN : Persist(h, storeOk)

Spec == Init /\ [][Next]_vars

\* overlapping invocations
ConcNext ==
    \E h \in Handlers :
        \/ \E m \in ConcMethods, a \in ConcAuthHeaders, b \in ConcBodies :
             Receive(h, m, a, b)
        \/ MethodCheck(h)
        \/ CheckAuth(h)
        \/ CheckAccessScope(h)
        \/ \E storeOk \in BOOLEAN : Persist(h, storeOk)

ConcSpec == Init /\ [][ConcNext]_vars

----------------------------------------------------------------------------
(* The usage derivation on its own *)

UsageInit ==
    /\ InitStore
    /\ reqs = [h \in Handlers |-> IdleRequest]
    /\ served = 0
    /\ usageIn \in UsageInputs
    /\ usageOut = [path |-> "none", usage |-> NoUsage]

DeriveOnCreate ==
    /\ usageOut.path = "none"
    /\ usageOut' = [path |-> "create", usage |-> calculatedUsage(usageIn)]
    /\ UNCHANGED <<storeVars, reqs, served, usageIn>>

DeriveOnPatch ==
    /\ usageOut.path = "none"
    /\ usageOut' = [path |-> "patch", usage |-> calculatedUsagePatch(usageIn)]
    /\ UNCHANGED <<storeVars, reqs, served, usageIn>>

UsageNext == DeriveOnCreate \/ DeriveOnPatch

UsageSpec == UsageInit /\ [][UsageNext]_vars

----------------------------------------------------------------------------
(* Vocabulary of the claims *)

Done(h) == reqs[h].pc = "done"
ValidKey(h) == verifyAuthHeaderAndReturnScope(reqs[h].authorization).validKey
CallerProject(h) == verifyAuthHeaderAndReturnScope(reqs[h].authorization).projectId

\* the payload passes the schema of the request's method
SchemaValid(h) ==
    IF reqs[h].method = "POST" THEN GenerationsCreateSchema(reqs[h].body)
    ELSE GenerationPatchSchema(reqs[h].body)

\* owner of a reference when the request arrived
OwnerBefore(h, type, id) ==
    RefProject(reqs[h].before.traces, reqs[h].before.observations,
               [type |-> type, id |-> id])

\* the request references a resource that another project owns or that does not resolve
ForeignRef(h) ==
    LET b == reqs[h].body
    IN IF reqs[h].method = "POST"
       THEN \/ Truthy(b.traceId) /\ OwnerBefore(h, "trace", b.traceId) # CallerProject(h)
            \/ /\ Truthy(b.parentObservationId)
               /\ OwnerBefore(h, "observation", b.parentObservationId) # CallerProject(h)
       ELSE OwnerBefore(h, "observation", b.generationId) # CallerProject(h)

StoreUntouched(h) ==
    /\ traces = reqs[h].before.traces
    /\ observations = reqs[h].before.observations

FailureKeys == {"success", "message", "error"}

\* a PATCH of an observation of the caller's project with a schema-valid payload
OwnedPatch(h) ==
    /\ Done(h)
    /\ reqs[h].method = "PATCH"
    /\ ValidKey(h)
    /\ SchemaValid(h)
    /\ OwnerBefore(h, "observation", reqs[h].body.generationId) = CallerProject(h)

ObservationBefore(h, id) == CHOOSE o \in reqs[h].before.observations : o.id = id
ObservationNow(id) == CHOOSE o \in observations : o.id = id

----------------------------------------------------------------------------
(* Claims *)

\* C1: a PATCH with a valid credential, a schema-valid payload and a generationId
\* of the caller's project reaches the store update and, unless the store fails,
\* is answered 201 with the updated observation; it is never answered 405.
C1_PatchSupported ==
    \A h \in Handlers :
        OwnedPatch(h) =>
            /\ reqs[h].resp.status # 405
            /\ "update" \in reqs[h].did
            /\ \/ /\ reqs[h].resp.status = 201
                  /\ reqs[h].resp.observation = reqs[h].body.generationId
               \/ reqs[h].resp.error = "StoreFailure"

\* C2: a create or patch with a valid credential that references a trace, parent
\* observation or generation of another project (or one that does not resolve) is
\* answered 403 and leaves the stored traces and observations as they were.
C2_ForeignRefForbidden ==
    \A h \in Handlers :
        ( /\ Done(h)
          /\ reqs[h].method \in {"POST", "PATCH"}
          /\ ValidKey(h)
          /\ SchemaValid(h)
          /\ ForeignRef(h) )
        => reqs[h].resp.status = 403 /\ StoreUntouched(h)

\* The create half of C2, which the handler does satisfy.
C2_OnPost ==
    \A h \in Handlers :
        ( /\ Done(h)
          /\ reqs[h].method = "POST"
          /\ ValidKey(h)
          /\ SchemaValid(h)
          /\ ForeignRef(h) )
        => reqs[h].resp.status = 403 /\ StoreUntouched(h)

\* C3: a successful create that omits traceId (absent, null or empty) inserts
\* exactly one new trace, of the caller's project and named from the request's
\* name (unnamed if none), and the new observation references it; with traceId
\* supplied no trace is inserted and the observation references the supplied trace.
C3_TraceAttachment ==
    \A h \in Handlers :
        (Done(h) /\ reqs[h].method = "POST" /\ reqs[h].resp.status = 201) =>
            LET b == reqs[h].body
                before == reqs[h].before
                o == ObservationNow(reqs[h].resp.observation)
            IN /\ o \notin before.observations
               /\ observations = before.observations \cup {o}
               /\ IF ~Truthy(b.traceId)
                  THEN \E t \in traces :
                          /\ \A u \in before.traces : u.id # t.id
                          /\ traces = before.traces \cup {t}
                          /\ t.projectId = reqs[h].scope
                          /\ t.name = (IF Nullish(b.name) THEN Null ELSE b.name)
                          /\ o.traceId = t.id
                  ELSE /\ traces = before.traces
                       /\ o.traceId = b.traceId

\* a create without traceId (sent as null) and named "foo" has succeeded
C3_Witness ==
    \E h \in Handlers :
        /\ Done(h) /\ reqs[h].method = "POST" /\ reqs[h].resp.status = 201
        /\ reqs[h].body.traceId = Null /\ reqs[h].body.name = "foo"
        /\ \E t \in traces \ reqs[h].before.traces : t.name = "foo"

\* C4: a POST or PATCH whose credential is missing or invalid is answered 401,
\* and its execution validates no payload, checks no access scope and calls no
\* store operation.
C4_UnauthenticatedFirst ==
    \A h \in Handlers :
        (Done(h) /\ reqs[h].method \in {"POST", "PATCH"} /\ ~ValidKey(h)) =>
            /\ reqs[h].resp.status = 401
            /\ reqs[h].did \subseteq {"auth"}
            /\ StoreUntouched(h)

\* The create half of C4, which the handler does satisfy.
C4_OnPost ==
    \A h \in Handlers :
        (Done(h) /\ reqs[h].method = "POST" /\ ~ValidKey(h)) =>
            /\ reqs[h].resp.status = 401
            /\ reqs[h].did \subseteq {"auth"}
            /\ StoreUntouched(h)

\* C5: a request whose method is neither POST nor PATCH is answered 405; its
\* execution verifies no credential, checks no access scope and touches the store
\* not at all, whatever credential and body it carries.
C5_OtherMethods ==
    \A h \in Handlers :
        (reqs[h].pc # "idle" /\ reqs[h].method \notin {"POST", "PATCH"}) =>
            /\ reqs[h].pc \in {"cors", "done"}
            /\ Done(h) => reqs[h].resp.status = 405
            /\ reqs[h].did = {}
            /\ StoreUntouched(h)

\* a GET carrying a valid credential and a well-formed create payload is answered
C5_Witness ==
    \E h \in Handlers :
        /\ Done(h) /\ reqs[h].method = "GET" /\ reqs[h].authorization = "k1"
        /\ reqs[h].body.traceId = "t1" /\ reqs[h].resp.status = 405

\* C6: the usage derivation of both paths keeps promptTokens and completionTokens,
\* keeps a supplied totalTokens (0 included), otherwise sets totalTokens to
\* (promptTokens ?? 0) + (completionTokens ?? 0) when either is present (0
\* included), and otherwise leaves totalTokens absent.
C6_DeriveUsage ==
    (usageOut.path # "none" /\ usageIn.defined) =>
        LET u == usageIn
            r == usageOut.usage
        IN /\ r.promptTokens = u.promptTokens
           /\ r.completionTokens = u.completionTokens
           /\ IF ~NullishNum(u.totalTokens)
              THEN r.totalTokens = u.totalTokens
              ELSE IF ~NullishNum(u.promptTokens) \/ ~NullishNum(u.completionTokens)
              THEN r.totalTokens = CoalesceNum(u.promptTokens, 0)
                                   + CoalesceNum(u.completionTokens, 0)
              ELSE NullishNum(r.totalTokens)

\* C7: after a patch, each of name, model, modelParameters, metadata, level and
\* statusMessage holds the payload's value if that is non-null, and the value
\* stored before if the payload's value is null or absent.
C7_ElidedFields ==
    \A h \in Handlers :
        (OwnedPatch(h) /\ reqs[h].resp.error # "StoreFailure") =>
            LET b == reqs[h].body
                old == ObservationBefore(h, b.generationId)
                new == ObservationNow(b.generationId)
            IN \A f \in ElidedFields :
                  new[f] = (IF Nullish(b[f]) THEN old[f] ELSE b[f])

\* C8: after a patch, endTime, input (prompt), output ({completion: value}) and
\* the computed usage hold what the payload supplies whenever the payload
\* supplies the field, an empty completion or prompt included.
C8_LastWriteWins ==
    \A h \in Handlers :
        (OwnedPatch(h) /\ reqs[h].resp.error # "StoreFailure") =>
            LET b == reqs[h].body
                new == ObservationNow(b.generationId)
            IN /\ ~Nullish(b.endTime) => new.endTime = NewDate(b.endTime)
               /\ ~Nullish(b.prompt) => new.input = b.prompt
               /\ ~Nullish(b.completion) => new.output = WrapCompletion(b.completion)
               /\ b.usage.defined => new.usage = calculatedUsagePatch(b.usage)

\* C9: an authenticated create or patch whose payload violates the schema, or
\* whose store operation fails, is answered 400 with {success, message, error};
\* and nothing is stored or modified unless the answer is 201.
C9_FailureHasNoEffect ==
    \A h \in Handlers :
        Done(h) =>
            /\ ( /\ reqs[h].method \in {"POST", "PATCH"}
                 /\ ValidKey(h)
                 /\ ~SchemaValid(h) )
               => reqs[h].resp.status = 400 /\ reqs[h].resp.keys = FailureKeys
            /\ reqs[h].resp.error = "StoreFailure"
               => reqs[h].resp.status = 400 /\ reqs[h].resp.keys = FailureKeys
            /\ reqs[h].resp.status # 201 => StoreUntouched(h)

\* The create half of C9, which the handler does satisfy.
C9_OnPost ==
    \A h \in Handlers :
        (Done(h) /\ reqs[h].method = "POST") =>
            /\ (ValidKey(h) /\ ~SchemaValid(h))
               => reqs[h].resp.status = 400 /\ reqs[h].resp.keys = FailureKeys
            /\ reqs[h].resp.error = "StoreFailure"
               => reqs[h].resp.status = 400 /\ reqs[h].resp.keys = FailureKeys
            /\ reqs[h].resp.status # 201 => StoreUntouched(h)

\* C10: under any interleaving of the handlers' steps, every observation the
\* handler created references a trace of the project of the scope that created
\* it, and its parent, if set, is an observation of that same project.
C10_TenantIsolation ==
    \A c \in creator :
        \E o \in observations :
            /\ o.id = c.id
            /\ TraceProject(traces, o.traceId) = c.projectId
            /\ o.parentObservationId # Null
               => ObservationProject(traces, observations, o.parentObservationId)
                  = c.projectId

\* two overlapping creates of different projects have both succeeded, one of
\* them under a parent observation
C10_Witness ==
    /\ \A h \in Handlers : Done(h) /\ reqs[h].resp.status = 201
    /\ reqs["h1"].scope # reqs["h2"].scope
    /\ reqs["h1"].before = reqs["h2"].before
    /\ \E c \in creator : ObservationNow(c.id).parentObservationId # Null

====
